---- MODULE Spec2Model ----
(***************************************************************************)
(* arkivisto: the scan acquisition run (scan.rs, scan_document), the       *)
(* post-processing pipeline (process.rs, process_document), the directory  *)
(* helpers (fs_utils.rs) and main (main.rs) as one state machine.  One     *)
(* behaviour of Spec is one run of one entry point; the operator's answers *)
(* and the external tools' outcomes are the inputs.  SpecRuns interleaves  *)
(* two runs of scan_document on one scans cache directory.                 *)
(***************************************************************************)
EXTENDS Naturals, Sequences, FiniteSets, TLC

\* ------------------------------------------------------------------ bounds
MaxPageCount == 3   \* largest page count the operator types at the prompt
MaxSheets == 3      \* most sheets a feeder batch delivers
MaxPages == 3       \* most numbered TIFFs in a document directory
MaxScanners == 3    \* most scanners in the configuration
MaxCalls == 2       \* calls of ensure_empty_dir_exists made in a row
MaxStart == 4       \* largest batch offset passed to _scanimage directly

\* ------------------------------------------------------- program constants
BatchBase == 1000   \* --batch-start={1000 + start}
DpiNormal == 300
DpiHigh == 600

\* --------------------------------------------------------------- Option<T>
None == <<>>
Some(x) == <<x>>
is_some(o) == o # None

\* -------------------------------------------------------------- file names
\* A file name is a sequence of tokens; ".tif", ".pdf" and "_" are tokens of
\* their own, so the suffix and separator tests below work on tokens.
PageName(n) == <<ToString(n), ".tif">>
CombinedTif == <<"_", "combined", ".tif">>
CombinedPdf == <<"_", "combined", ".pdf">>
FinalPdf == <<"_", "final", ".pdf">>
NotesTxt == <<"notes", ".txt">>
\* A name that is not valid Unicode: OsString::into_string() returns Err on it.
NonUnicodeName == <<"not-unicode">>
into_string_ok(name) == name # NonUnicodeName

\* A directory on disk: kind is "absent", "file" (a regular file sits at the
\* path) or "dir"; files is the set of names inside a "dir".
Absent == [kind |-> "absent", files |-> {}]
RegularFile == [kind |-> "file", files |-> {}]
Dir(fs) == [kind |-> "dir", files |-> fs]

\* ------------------------------------------------------------------ config
SourceMaps ==
    [adf_single : {None, Some("ADF")},
     adf_duplex : {None, Some("ADF Duplex")},
     flatbed : {None, Some("Flatbed")}]

\* ---------------------------------------------------------------- ScanMode
AdfSingleSided == [kind |-> "AdfSingleSided", page_count |-> 0]
AdfDuplex == [kind |-> "AdfDuplex", page_count |-> 0]
AdfManualDuplex == [kind |-> "AdfManualDuplex", page_count |-> 0]
Flatbed(n) == [kind |-> "Flatbed", page_count |-> n]
NoMode == [kind |-> "unset", page_count |-> 0]
FeederKinds == {"AdfSingleSided", "AdfDuplex", "AdfManualDuplex"}

\* Mutant: manual duplex is offered for the duplex source.
options_ManualNeedsDuplex(available_sources) ==
    (IF is_some(available_sources.adf_single) THEN <<AdfSingleSided>> ELSE <<>>)
    \o (IF is_some(available_sources.adf_duplex) THEN <<AdfDuplex>> ELSE <<>>)
    \o (IF is_some(available_sources.adf_duplex) THEN <<AdfManualDuplex>> ELSE <<>>)
    \o (IF is_some(available_sources.flatbed) THEN <<Flatbed(0)>> ELSE <<>>)

options(available_sources) ==
    (IF is_some(available_sources.adf_single) THEN <<AdfSingleSided>> ELSE <<>>)
    \o (IF is_some(available_sources.adf_duplex) THEN <<AdfDuplex>> ELSE <<>>)
    \o (IF is_some(available_sources.adf_single) THEN <<AdfManualDuplex>> ELSE <<>>)
    \o (IF is_some(available_sources.flatbed) THEN <<Flatbed(0)>> ELSE <<>>)

as_dpi(res) == IF res = "Normal" THEN DpiNormal ELSE DpiHigh

\* Mutant: manual duplex reads the duplex source.
get_source_ManualUsesDuplex(m, srcs) ==
    CASE m.kind = "AdfSingleSided" -> srcs.adf_single
      [] m.kind = "AdfDuplex" -> srcs.adf_duplex
      [] m.kind = "AdfManualDuplex" -> srcs.adf_duplex
      [] OTHER -> srcs.flatbed

\* get_source! for each mode: the Option the macro unwraps.
get_source(m, srcs) ==
    CASE m.kind = "AdfSingleSided" -> srcs.adf_single
      [] m.kind = "AdfDuplex" -> srcs.adf_duplex
      [] m.kind = "AdfManualDuplex" -> srcs.adf_single
      [] OTHER -> srcs.flatbed

\* -------------------------------------------------------------- fs_utils.rs
\* Mutant: an existing directory is not removed, so create_dir fails on it.
ensure_empty_dir_exists_NoRemove(parent_ok, d) ==
    IF d.kind # "absent"
    THEN [ok |-> FALSE, err |-> IF d.kind = "dir" THEN "IoError" ELSE "NotADirectory",
          dir |-> d, parent |-> parent_ok]
    ELSE IF ~parent_ok
    THEN [ok |-> FALSE, err |-> "IoError", dir |-> d, parent |-> parent_ok]
    ELSE [ok |-> TRUE, err |-> "none", dir |-> Dir({}), parent |-> parent_ok]

\* Mutant: an existing directory is reused with what it holds.
ensure_empty_dir_exists_KeepContents(parent_ok, d) ==
    IF d.kind # "absent" /\ d.kind # "dir"
    THEN [ok |-> FALSE, err |-> "NotADirectory", dir |-> d, parent |-> parent_ok]
    ELSE IF ~parent_ok
    THEN [ok |-> FALSE, err |-> "IoError", dir |-> d, parent |-> parent_ok]
    ELSE [ok |-> TRUE, err |-> "none", dir |-> Dir(d.files), parent |-> parent_ok]

\* Mutant: create_dir_all instead of create_dir, and a file is replaced.
ensure_empty_dir_exists_CreateAll(parent_ok, d) ==
    [ok |-> TRUE, err |-> "none", dir |-> Dir({}), parent |-> TRUE]

\* path.exists() is false when the parent is missing; an existing path must be
\* a directory and is removed with its contents; create_dir needs the parent.
\* The result says what is at the path, and whether its parent exists, after
\* the call.
ensure_empty_dir_exists(parent_ok, d) ==
    IF d.kind # "absent" /\ d.kind # "dir"
    THEN [ok |-> FALSE, err |-> "NotADirectory", dir |-> d, parent |-> parent_ok]
    ELSE IF ~parent_ok
    THEN [ok |-> FALSE, err |-> "IoError", dir |-> d, parent |-> parent_ok]
    ELSE [ok |-> TRUE, err |-> "none", dir |-> Dir({}), parent |-> parent_ok]

\* Mutant: subdirectories are descended into and their files copied too.
copy_dir_file_contents_Recursive(entries, dst) ==
    IF dst.kind # "dir"
    THEN [ok |-> FALSE, err |-> "DestinationInvalid", dir |-> dst]
    ELSE [ok |-> TRUE, err |-> "none",
          dir |-> Dir(dst.files
                      \cup {e.name : e \in {x \in entries : x.is_file}}
                      \cup UNION {{e.name \o <<"/">> \o c : c \in e.children} : e \in entries})]

\* copy_dir_file_contents: entries are the entries of read_dir(src),
\* [name, is_file, children]; only the entries that are files are copied, to
\* dst.join(file_name).
copy_dir_file_contents(entries, dst) ==
    IF dst.kind # "dir"
    THEN [ok |-> FALSE, err |-> "DestinationInvalid", dir |-> dst]
    ELSE [ok |-> TRUE, err |-> "none",
          dir |-> Dir(dst.files \cup {e.name : e \in {x \in entries : x.is_file}})]

FixtureEntries ==
    {[name |-> PageName(BatchBase), is_file |-> TRUE, children |-> {}],
     [name |-> PageName(BatchBase + 1), is_file |-> TRUE, children |-> {}],
     [name |-> <<"sub">>, is_file |-> FALSE, children |-> {<<"nested", ".txt">>}]}

VARIABLES
    entry,        \* which entry point this run executes
    pc,           \* position of the run
    result,       \* the value the entry point returned ("none" while running)
    log,          \* prompts shown and external tools invoked, in order
    sources,      \* context.scanner.sources
    fake_scan,    \* context.fake_scan
    call,         \* _scanimage's (start, count, source) when it is called directly
    mode,         \* scan_document's local `mode`
    resolution,   \* scan_document's local `resolution`
    i,            \* run_scanimage's flatbed loop index
    cur,          \* <scans cache>/current
    stamped,      \* the timestamp-named directories this run created
    testdata,     \* ./testdata: [kind, entries]
    doc,          \* process_document's `directory`
    tifs_step0,   \* discovered pages, in listing order
    tifs_step1,   \* contrast-corrected pages
    page_idx,     \* index of process_document's per-page loop
    progress,     \* the progress bar: [pos, len]
    scanners,     \* select_scanner's `scanners`
    selected,     \* the Scanner select_scanner returned, if any
    path,         \* what is at `path` (ensure_empty_dir_exists) or `dst` (copy)
    parent_exists,\* whether the parent directory of `path` exists
    src,          \* copy_dir_file_contents' `src`: [kind, entries]
    rets,         \* the values returned by the calls made so far
    runs,         \* two runs of the program on one cache root: each run's position
    owner,        \* which run wrote each page that is in "current"
    overlapped    \* whether a run was ever started while another was in flight

vars == <<entry, pc, result, log, sources, fake_scan, call, mode, resolution, i,
          cur, stamped, testdata, doc, tifs_step0, tifs_step1, page_idx,
          progress, scanners, selected, path, parent_exists, src, rets,
          runs, owner, overlapped>>

scanVars == <<sources, fake_scan, call, mode, resolution, i, cur, stamped, testdata>>
procVars == <<doc, tifs_step0, tifs_step1, page_idx, progress>>
runVars == <<runs, owner, overlapped>>
unitVars == <<scanners, selected, path, parent_exists, src, rets, runVars>>

Event(op, arg, out, wrote) == [op |-> op, arg |-> arg, out |-> out, wrote |-> wrote]

\* `return Err(e)` / `?` out of the entry point.
Return(r) == pc' = "returned" /\ result' = r

\* ================================================================= scan.rs
IsFlatbed(m) == m.kind = "Flatbed"

\* scan_document runs on its own or called by main; run_scanimage runs inside
\* scan_document, or on its own with a mode,
\* resolution and scanner of the caller's choice.
InScanDocument == entry \in {"scan_document", "main"}
InRunScanimage == InScanDocument \/ entry = "run_scanimage"
\* The runs of run_scanimage that start at scan_document or at run_scanimage.
InExecutor == entry \in {"scan_document", "run_scanimage"}

\* _scanimage is called by run_scanimage, or on its own with a start, count,
\* source and resolution of the caller's choice.
InScanimage == InRunScanimage \/ entry = "_scanimage"

\* Mutant: every page is scanned with start 0.
ScanimageArgsNoOffset(m, idx) ==
    IF IsFlatbed(m)
    THEN [start |-> 0, count |-> Some(1)]
    ELSE [start |-> 0, count |-> None]

\* Mutant: a feeder batch is limited to one page like a flatbed page.
ScanimageArgsAlwaysCount(m, idx) ==
    IF IsFlatbed(m)
    THEN [start |-> idx, count |-> Some(1)]
    ELSE [start |-> 0, count |-> Some(1)]

\* The arguments run_scanimage passes to _scanimage: (start, count).
\* Feeder modes: _scanimage(.., 0, None, ..); Flatbed: _scanimage(.., i, Some(1), ..).
ScanimageArgs(m, idx) ==
    IF IsFlatbed(m)
    THEN [start |-> idx, count |-> Some(1)]
    ELSE [start |-> 0, count |-> None]

\* The (start, count) and the source of the _scanimage call about to be made.
CallArgs == IF entry = "_scanimage" THEN [start |-> call.start, count |-> call.count]
            ELSE ScanimageArgs(mode, i)
CallSource == IF entry = "_scanimage" THEN call.source
              ELSE get_source(mode, sources)[1]

\* Mutant: the batch starts at `start` itself and High is scanned at 300 dpi.
ScanimageCmdNoBase(a, res, source) ==
    [batch_start |-> a.start,
     batch_count |-> a.count,
     resolution |-> DpiNormal,
     source |-> source]

\* The command line _scanimage builds.
ScanimageCmd(a, res, source) ==
    [batch_start |-> BatchBase + a.start,
     batch_count |-> a.count,
     resolution |-> as_dpi(res),
     source |-> source]

\* What the real tool leaves in the batch directory: pages named from
\* --batch-start upwards; with --batch-count=n at most n pages.
PagesFrom(first, n) == {PageName(first + k) : k \in 0 .. n - 1}

SheetCounts(cmd, ok) ==
    LET most == IF cmd.batch_count = None THEN MaxSheets ELSE cmd.batch_count[1]
    IN  IF ok THEN 1 .. most ELSE 0 .. most

\* scan_document: ensure that "current" exists and is empty.
Stage ==
    /\ InScanDocument /\ pc = "scan_document"
    /\ LET r == ensure_empty_dir_exists(TRUE, cur)
       IN  /\ cur' = r.dir
           /\ IF r.ok
              THEN pc' = "select_mode" /\ result' = result
              ELSE Return(r.err)
    /\ UNCHANGED <<entry, log, sources, fake_scan, call, mode, resolution, i, stamped,
                   testdata, procVars, unitVars>>

\* inquire::Select::new("How to scan?", options).prompt()?
\* An empty option list makes the prompt return an error; answer 0 is the
\* operator cancelling the prompt.
SelectMode ==
    /\ InScanDocument /\ pc = "select_mode"
    /\ LET opts == options(sources)
       IN  \E answer \in 0 .. Len(opts) :
             /\ log' = Append(log, Event("Select", opts, answer, {}))
             /\ IF answer = 0
                THEN Return("InquireError") /\ mode' = mode
                ELSE /\ mode' = opts[answer]
                     /\ pc' = IF IsFlatbed(opts[answer]) THEN "page_count" ELSE "options"
                     /\ result' = result
    /\ UNCHANGED <<entry, sources, fake_scan, call, resolution, i, cur, stamped,
                   testdata, procVars, unitVars>>

\* Mutant: the validator accepts every number.
page_count_validator_AcceptsZero(input) == input >= 0

\* The validator of the page count prompt.
page_count_validator(input) == input > 0

\* inquire::CustomType::<usize>::new("Number of pages to scan?")...prompt()?
\* input 0 is rejected by the validator and the prompt asks again.
PageCount ==
    /\ InScanDocument /\ pc = "page_count"
    /\ \/ \E input \in 0 .. MaxPageCount :
            IF page_count_validator(input)
            THEN /\ mode' = Flatbed(input)
                 /\ log' = Append(log, Event("CustomType", "page_count", Some(input), {}))
                 /\ pc' = "options" /\ result' = result
            ELSE UNCHANGED <<mode, log, pc, result>>
       \/ /\ log' = Append(log, Event("CustomType", "page_count", None, {}))
          /\ Return("InquireError") /\ mode' = mode
    /\ UNCHANGED <<entry, sources, fake_scan, call, resolution, i, cur, stamped,
                   testdata, procVars, unitVars>>

\* inquire::MultiSelect over [option_highdpi]
Options ==
    /\ InScanDocument /\ pc = "options"
    /\ \/ \E chosen \in SUBSET {"highdpi"} :
            /\ resolution' = IF "highdpi" \in chosen THEN "High" ELSE "Normal"
            /\ log' = Append(log, Event("MultiSelect", "options", Some(chosen), {}))
            /\ pc' = "run_scanimage" /\ result' = result
       \/ /\ log' = Append(log, Event("MultiSelect", "options", None, {}))
          /\ Return("InquireError") /\ resolution' = resolution
    /\ UNCHANGED <<entry, sources, fake_scan, call, mode, i, cur, stamped, testdata,
                   procVars, unitVars>>

\* run_scanimage up to its first prompt or tool call: resolve the source,
\* then enter the match on the mode.
RunScanimage ==
    /\ InRunScanimage /\ pc = "run_scanimage"
    /\ IF ~is_some(get_source(mode, sources))
       THEN Return("SourceUnavailable") /\ i' = i
       ELSE IF IsFlatbed(mode)
       THEN IF mode.page_count > 0
            THEN i' = 0 /\ pc' = "confirm" /\ result' = result
            ELSE i' = i /\ pc' = "panicked" /\ result' = result
       ELSE i' = i /\ pc' = "_scanimage" /\ result' = result
    /\ UNCHANGED <<entry, log, sources, fake_scan, call, mode, resolution, cur, stamped,
                   testdata, procVars, unitVars>>

\* Mutant: the answer "no" is not looked at.
AfterConfirmIgnoresNo(answer) ==
    CASE answer = "cancel" -> Return("InquireError")
      [] OTHER -> pc' = "_scanimage" /\ result' = result

\* What run_scanimage does with the prompt's answer: `?` on a cancelled
\* prompt, `return Err("Scan aborted by user")` on "no", else scan the page.
AfterConfirm(answer) ==
    CASE answer = "cancel" -> Return("InquireError")
      [] answer = "no" -> Return("UserAborted")
      [] OTHER -> pc' = "_scanimage" /\ result' = result

\* inquire::Confirm::new("Scan page {i+1}/{page_count}?").prompt()?
Confirm ==
    /\ InRunScanimage /\ pc = "confirm"
    /\ \E answer \in {"yes", "no", "cancel"} :
         /\ log' = Append(log, Event("Confirm", [i |-> i, page_count |-> mode.page_count],
                                     answer, {}))
         /\ AfterConfirm(answer)
    /\ UNCHANGED <<entry, sources, fake_scan, call, mode, resolution, i, cur, stamped,
                   testdata, procVars, unitVars>>

\* run_scanimage returned Ok(()): scan_document goes on to the rename.
RunScanimageOk ==
    IF InScanDocument
    THEN pc' = "rename" /\ result' = result
    ELSE Return("Ok")

\* Where run_scanimage goes after _scanimage returned Ok(()).
AfterScanimage ==
    IF IsFlatbed(mode)
    THEN /\ i' = i + 1
         /\ IF i + 1 < mode.page_count
            THEN pc' = "confirm" /\ result' = result
            ELSE RunScanimageOk
    ELSE i' = i /\ RunScanimageOk

\* Mutant: the error of _scanimage is dropped and the run goes on.
AfterScanimageErrSwallowed(e) == AfterScanimage

\* Mutant: a failed _scanimage call is made again.
AfterScanimageErrRetry(e) == pc' = "_scanimage" /\ i' = i /\ result' = result

\* Where run_scanimage goes after _scanimage returned Err: `?` returns it.
AfterScanimageErr(e) == Return(e) /\ i' = i

\* Mutant: a failed scan clears the batch directory.
DirAfterScanCleanup(d, wrote, ok) == IF ok THEN Dir(d.files \cup wrote) ELSE Dir({})

\* The batch directory after the tool exited: the pages it wrote are added,
\* and nothing is removed whether it succeeded or not.
DirAfterScan(d, wrote, ok) == Dir(d.files \cup wrote)

\* _scanimage with fake_scan unset: Command::new("scanimage").args(&args).output()?
Scanimage ==
    /\ InScanimage /\ pc = "_scanimage" /\ ~fake_scan
    /\ LET a == CallArgs
           cmd == ScanimageCmd(a, resolution, CallSource)
       IN  \/ \* the process could not be spawned
              /\ log' = Append(log, Event("scanimage", cmd, "spawn_error", {}))
              /\ cur' = cur
              /\ AfterScanimageErr("IoError")
           \/ \E ok \in BOOLEAN : \E n \in SheetCounts(cmd, ok) :
                LET wrote == PagesFrom(cmd.batch_start, n)
                IN  /\ log' = Append(log, Event("scanimage", cmd,
                                                IF ok THEN "ok" ELSE "fail", wrote))
                    /\ cur' = DirAfterScan(cur, wrote, ok)
                    /\ IF ok
                       THEN AfterScanimage
                       ELSE AfterScanimageErr("ToolFailed")
    /\ UNCHANGED <<entry, sources, fake_scan, call, mode, resolution, stamped, testdata,
                   procVars, unitVars>>

\* Mutant: the fixture directory is not checked before it is read.
fake_scanimage_NoCheck(fixture, scans_dir) ==
    copy_dir_file_contents(fixture.entries, scans_dir)

\* fake_scanimage: the fixture directory must exist and be a directory.
fake_scanimage(fixture, scans_dir) ==
    IF fixture.kind = "absent"
    THEN [ok |-> FALSE, err |-> "FixtureMissing", dir |-> scans_dir]
    ELSE IF fixture.kind # "dir"
    THEN [ok |-> FALSE, err |-> "FixtureNotADirectory", dir |-> scans_dir]
    ELSE copy_dir_file_contents(fixture.entries, scans_dir)

\* _scanimage with fake_scan set: no command is run.
FakeScanimage ==
    /\ InScanimage /\ pc = "_scanimage" /\ fake_scan
    /\ LET a == CallArgs
           cmd == ScanimageCmd(a, resolution, CallSource)
           r == fake_scanimage(testdata, cur)
       IN  /\ log' = Append(log, Event("fake_scanimage", cmd,
                                       IF r.ok THEN "ok" ELSE r.err,
                                       r.dir.files \ cur.files))
           /\ cur' = r.dir
           /\ IF r.ok
              THEN AfterScanimage
              ELSE AfterScanimageErr(r.err)
    /\ UNCHANGED <<entry, sources, fake_scan, call, mode, resolution, stamped, testdata,
                   procVars, unitVars>>

\* fs::rename(&current_dir, &new_dir)?; Ok(())
Rename ==
    /\ InScanDocument /\ pc = "rename"
    /\ stamped' = Append(stamped, cur)
    /\ cur' = Absent
    /\ log' = Append(log, Event("rename", "current", "ok", {}))
    /\ Return("Ok")
    /\ UNCHANGED <<entry, sources, fake_scan, call, mode, resolution, i, testdata, procVars, unitVars>>


\* Mutant: the one-scanner shortcut is never taken.
only_one_scanner_Never(list) == FALSE

\* if scanners.len() == 1
only_one_scanner(list) == Len(list) = 1

\* main: parse the arguments, initialize tracing and load the configuration;
\* each `?` returns the error.
Main ==
    /\ entry = "main" /\ pc = "main"
    /\ \/ Return("ConfigError")
       \/ pc' = "select_scanner" /\ result' = result
    /\ UNCHANGED <<entry, log, scanVars, procVars, unitVars>>

InSelectScanner == entry \in {"select_scanner", "main"}

\* select_scanner returned Ok(scanner): main goes on to scan_document.
SelectScannerOk ==
    IF entry = "main"
    THEN pc' = "scan_document" /\ result' = result
    ELSE Return("Ok")

\* select_scanner: one scanner is returned as it is; any other list, the empty
\* one included, is handed to inquire::Select, whose prompt()? returns the
\* operator's choice or an error (answer 0: cancelled, or nothing to choose).
SelectScanner ==
    /\ InSelectScanner /\ pc = "select_scanner"
    /\ IF only_one_scanner(scanners)
       THEN selected' = Some(scanners[1]) /\ SelectScannerOk /\ log' = log
       ELSE \E answer \in 0 .. Len(scanners) :
              /\ log' = Append(log, Event("SelectScanner", scanners, answer, {}))
              /\ IF answer = 0
                 THEN selected' = None /\ Return("InquireError")
                 ELSE selected' = Some(scanners[answer]) /\ SelectScannerOk
    /\ UNCHANGED <<entry, scanners, path, parent_exists, src, rets, scanVars, procVars,
                   runVars>>

\* ensure_empty_dir_exists called on a path, up to MaxCalls times in a row.
\* rets keeps each call's return value with what was at the path before it.
EnsureEmpty ==
    /\ entry = "ensure_empty_dir_exists" /\ pc = "ensure_empty_dir_exists"
    /\ LET r == ensure_empty_dir_exists(parent_exists, path)
           ret == IF r.ok THEN "Ok" ELSE r.err
       IN  /\ path' = r.dir
           /\ parent_exists' = r.parent
           /\ rets' = Append(rets, [ret |-> ret, before |-> path,
                                    parent_before |-> parent_exists])
           /\ result' = ret
           /\ pc' = IF Len(rets) + 1 < MaxCalls THEN pc ELSE "returned"
    /\ UNCHANGED <<entry, log, scanners, selected, src, scanVars, procVars, runVars>>

\* copy_dir_file_contents(src, dst) called once, dst being `path`. The
\* destination is checked first; read_dir(src)? fails on a source that is no
\* directory.
CopyDirFileContents ==
    /\ entry = "copy_dir_file_contents" /\ pc = "copy_dir_file_contents"
    /\ LET r == IF path.kind = "dir" /\ src.kind # "dir"
                THEN [ok |-> FALSE, err |-> "IoError", dir |-> path]
                ELSE copy_dir_file_contents(src.entries, path)
           ret == IF r.ok THEN "Ok" ELSE r.err
       IN  /\ path' = r.dir
           /\ rets' = Append(rets, [ret |-> ret, before |-> path,
                                    parent_before |-> parent_exists])
           /\ Return(ret)
    /\ UNCHANGED <<entry, log, scanners, selected, src, parent_exists, scanVars, procVars,
                   runVars>>

\* ============================================================== process.rs
\* filename.ends_with(".tif") && !filename.contains('_')
ends_with_tif(name) == Len(name) > 0 /\ name[Len(name)] = ".tif"
contains_sep(name) == \E k \in 1 .. Len(name) : name[k] = "_"
\* Mutant: every name ending in ".tif" qualifies.
is_unprocessed_tif_AnyTif(name) == ends_with_tif(name)

is_unprocessed_tif(name) == ends_with_tif(name) /\ ~contains_sep(name)

\* Mutant: the output name is the input name.
replace_tif_Identity(name) == name

\* tif.replace(".tif", "_processed.tif"): every ".tif" token is replaced.
RECURSIVE replace_tif(_)
replace_tif(name) ==
    IF name = <<>> THEN <<>>
    ELSE (IF Head(name) = ".tif" THEN <<"_", "processed", ".tif">> ELSE <<Head(name)>>)
         \o replace_tif(Tail(name))

\* The entries of fs::read_dir(directory), in any order the OS returns them.
RECURSIVE Orderings(_)
Orderings(S) ==
    IF S = {} THEN {<<>>}
    ELSE UNION {{<<x>> \o rest : rest \in Orderings(S \ {x})} : x \in S}

\* .filter_map(..).collect(): the qualifying names, in listing order.
RECURSIVE filter_map(_)
filter_map(listing) ==
    IF listing = <<>> THEN <<>>
    ELSE (IF is_unprocessed_tif(Head(listing)) THEN <<Head(listing)>> ELSE <<>>)
         \o filter_map(Tail(listing))

\* progress.inc(1)
inc(p) == [p EXCEPT !.pos = p.pos + 1]

\* Mutant: the tick that follows the per-page loop is not budgeted.
progress_total_NoLoopTick(n) == n + 3

\* ProgressBar::new(tifs_step0.len() as u64 + 4)
progress_total(n) == n + 4

\* How an external command ends: exit status 0, a non-zero exit status (with
\* or without its output file left behind), or the spawn itself failing.
ToolOutcomes == {"ok", "fail", "fail_partial", "spawn_error"}
Written(outcome, out) == IF outcome \in {"ok", "fail_partial"} THEN {out} ELSE {}
ToolError(outcome) == IF outcome = "spawn_error" THEN "IoError" ELSE "ToolFailed"

\* Mutant: the directory is left in place.
remove_dir_all_Kept(d) == d

\* fs::remove_dir_all(directory)
remove_dir_all(d) == Absent

\* Mutant: the exit status is not checked.
GateIgnoresStatus(outcome, next) ==
    /\ progress' = inc(progress)
    /\ IF next = "returned" THEN Return("Ok")
       ELSE pc' = next /\ result' = result

\* After a command of the pipeline returned: a non-zero status (or a failed
\* spawn) returns the error; success ticks and goes on to the next stage.
Gate(outcome, next) ==
    IF outcome = "ok"
    THEN /\ progress' = inc(progress)
         /\ IF next = "returned" THEN Return("Ok")
            ELSE pc' = next /\ result' = result
    ELSE Return(ToolError(outcome)) /\ progress' = progress

\* Collect all unprocessed TIFF files; if none, delete the directory.
Discover ==
    /\ entry = "process_document" /\ pc = "process_document"
    /\ IF doc.kind # "dir"
       THEN \* fs::read_dir(directory).expect("Failed to read directory")
            /\ pc' = "panicked"
            /\ UNCHANGED <<result, doc, tifs_step0, progress>>
       ELSE IF \E name \in doc.files : ~into_string_ok(name)
       THEN \* entry.file_name().into_string().unwrap()
            /\ pc' = "panicked"
            /\ UNCHANGED <<result, doc, tifs_step0, progress>>
       ELSE \E listing \in Orderings(doc.files) :
              LET found == filter_map(listing)
              IN  /\ tifs_step0' = found
                  /\ IF found = <<>>
                     THEN /\ doc' = remove_dir_all(doc)
                          /\ Return("NoScannedPages")
                          /\ progress' = progress
                     ELSE /\ doc' = doc
                          /\ progress' = [pos |-> 0, len |-> progress_total(Len(found))]
                          /\ pc' = "contrast" /\ result' = result
    /\ UNCHANGED <<entry, log, tifs_step1, page_idx, scanVars, unitVars>>

\* Mutant: the exit status of magick is not checked.
AfterContrastIgnoresStatus(outcome, tif_out) ==
    /\ tifs_step1' = Append(tifs_step1, tif_out)
    /\ page_idx' = page_idx + 1
    /\ result' = result
    /\ IF page_idx + 1 < Len(tifs_step0)
       THEN pc' = "contrast" /\ progress' = inc(progress)
       ELSE pc' = "combine" /\ progress' = inc(inc(progress))

\* Mutant: the iteration's tick is made only once magick succeeded.
AfterContrastTickOnSuccess(outcome, tif_out) ==
    IF outcome = "ok"
    THEN /\ tifs_step1' = Append(tifs_step1, tif_out)
         /\ page_idx' = page_idx + 1
         /\ result' = result
         /\ IF page_idx + 1 < Len(tifs_step0)
            THEN pc' = "contrast" /\ progress' = inc(progress)
            ELSE pc' = "combine" /\ progress' = inc(inc(progress))
    ELSE /\ Return(ToolError(outcome))
         /\ progress' = progress
         /\ UNCHANGED <<tifs_step1, page_idx>>

\* The rest of a loop iteration once magick returned: a non-zero status (or a
\* failed spawn) returns the error, success pushes tif_out and moves on. The
\* iteration's progress.inc(1) was made before magick ran, so it is made on
\* either outcome.
AfterContrast(outcome, tif_out) ==
    IF outcome = "ok"
    THEN /\ tifs_step1' = Append(tifs_step1, tif_out)
         /\ page_idx' = page_idx + 1
         /\ result' = result
         /\ IF page_idx + 1 < Len(tifs_step0)
            THEN pc' = "contrast" /\ progress' = inc(progress)
            ELSE pc' = "combine" /\ progress' = inc(inc(progress))
    ELSE /\ Return(ToolError(outcome))
         /\ progress' = inc(progress)
         /\ UNCHANGED <<tifs_step1, page_idx>>

\* One iteration of the per-page loop: tick, then magick on page page_idx.
\* The iteration that ends the loop also makes the tick that follows it.
Contrast ==
    /\ entry = "process_document" /\ pc = "contrast"
    /\ LET tif == tifs_step0[page_idx + 1]
           tif_out == replace_tif(tif)
       IN  \E outcome \in ToolOutcomes :
             /\ log' = Append(log, Event("magick", [in |-> tif, out |-> tif_out],
                                         outcome, Written(outcome, tif_out)))
             /\ doc' = Dir(doc.files \cup Written(outcome, tif_out))
             /\ AfterContrast(outcome, tif_out)
    /\ UNCHANGED <<entry, tifs_step0, scanVars, unitVars>>

\* A single-command stage: run the command, record what it left on disk.
RunTool(op, arg, out, next) ==
    \E outcome \in ToolOutcomes :
      /\ log' = Append(log, Event(op, arg, outcome, Written(outcome, out)))
      /\ doc' = Dir(doc.files \cup Written(outcome, out))
      /\ Gate(outcome, next)

\* tiffcp -c lzw <tifs_step1...> _combined.tif
Combine ==
    /\ entry = "process_document" /\ pc = "combine"
    /\ RunTool("tiffcp", [in |-> tifs_step1, out |-> CombinedTif], CombinedTif, "convert")
    /\ UNCHANGED <<entry, tifs_step0, tifs_step1, page_idx, scanVars, unitVars>>

\* magick _combined.tif -compress JPEG _combined.pdf
Convert ==
    /\ entry = "process_document" /\ pc = "convert"
    /\ RunTool("magick_pdf", [in |-> CombinedTif, out |-> CombinedPdf], CombinedPdf, "ocr")
    /\ UNCHANGED <<entry, tifs_step0, tifs_step1, page_idx, scanVars, unitVars>>

\* docker run ... ocrmypdf /document/_combined.pdf /document/_final.pdf
Ocr ==
    /\ entry = "process_document" /\ pc = "ocr"
    /\ RunTool("docker", [in |-> CombinedPdf, out |-> FinalPdf], FinalPdf, "returned")
    /\ UNCHANGED <<entry, tifs_step0, tifs_step1, page_idx, scanVars, unitVars>>


\* ======================================= two runs on one scans cache root
\* Two processes run scan_document against the same cache directory: they
\* share "current" and the timestamped directories and nothing else. A run
\* moves at its suspension points: staging, the prompts, each scan call and
\* the rename. The code takes no lock and has no per-run directory name.
Runs == {"A", "B"}
IdleRun == [pc |-> "idle", mode |-> NoMode, i |-> 0, result |-> "none", committed |-> {}]
NoPages == [f \in {} |-> "nobody"]
InFlight(r) == runs[r].pc \notin {"idle", "returned"}
RunReturn(r, res) == runs' = [runs EXCEPT ![r].pc = "returned", ![r].result = res]

oneRunVars == <<entry, pc, result, log, sources, fake_scan, call, mode, resolution, i,
                testdata, procVars, scanners, selected, path, parent_exists, src, rets>>

\* The process is started: main up to the call of scan_document.
StartRun(r) ==
    /\ runs[r].pc = "idle"
    /\ runs' = [runs EXCEPT ![r].pc = "scan_document"]
    /\ overlapped' = (overlapped \/ \E q \in Runs \ {r} : InFlight(q))
    /\ UNCHANGED <<cur, stamped, owner, oneRunVars>>

\* fs_utils::ensure_empty_dir_exists(&current_dir)?
StageRun(r) ==
    /\ runs[r].pc = "scan_document"
    /\ LET e == ensure_empty_dir_exists(TRUE, cur)
       IN  /\ cur' = e.dir
           /\ owner' = [f \in e.dir.files |-> owner[f]]
           /\ IF e.ok
              THEN runs' = [runs EXCEPT ![r].pc = "prompts"]
              ELSE RunReturn(r, e.err)
    /\ UNCHANGED <<stamped, overlapped, oneRunVars>>

\* The prompts for the mode, the page count and the options: the run gets
\* its mode, or the operator cancels.
PromptsRun(r) ==
    /\ runs[r].pc = "prompts"
    /\ \/ \E m \in {AdfSingleSided} \cup {Flatbed(n) : n \in 1 .. MaxPageCount} :
            runs' = [runs EXCEPT ![r].pc = "_scanimage", ![r].mode = m, ![r].i = 0]
       \/ RunReturn(r, "InquireError")
    /\ UNCHANGED <<cur, stamped, owner, overlapped, oneRunVars>>

\* One scan call of run_scanimage (for Flatbed after its confirmation, which
\* the operator may decline): the tool writes its pages into "current",
\* whatever is there; without the directory it fails.
ScanRun(r) ==
    /\ runs[r].pc = "_scanimage"
    /\ LET m == runs[r].mode
           cmd == ScanimageCmd(ScanimageArgs(m, runs[r].i), "Normal", "source")
       IN  \/ /\ IsFlatbed(m)
              /\ RunReturn(r, "UserAborted")
              /\ UNCHANGED <<cur, owner>>
           \/ /\ cur.kind # "dir"
              /\ RunReturn(r, "ToolFailed")
              /\ UNCHANGED <<cur, owner>>
           \/ /\ cur.kind = "dir"
              /\ \E ok \in BOOLEAN : \E n \in SheetCounts(cmd, ok) :
                   LET wrote == PagesFrom(cmd.batch_start, n)
                       after == DirAfterScan(cur, wrote, ok)
                   IN  /\ cur' = after
                       /\ owner' = [f \in after.files |-> IF f \in wrote THEN r ELSE owner[f]]
                       /\ IF ~ok
                          THEN RunReturn(r, "ToolFailed")
                          ELSE IF IsFlatbed(m) /\ runs[r].i + 1 < m.page_count
                          THEN runs' = [runs EXCEPT ![r].i = runs[r].i + 1]
                          ELSE runs' = [runs EXCEPT ![r].pc = "rename"]
    /\ UNCHANGED <<stamped, overlapped, oneRunVars>>

\* fs::rename(&current_dir, &new_dir)?; Ok(())
RenameRun(r) ==
    /\ runs[r].pc = "rename"
    /\ IF cur.kind = "absent"
       THEN RunReturn(r, "IoError") /\ UNCHANGED <<cur, stamped, owner>>
       ELSE /\ stamped' = Append(stamped, cur)
            /\ cur' = Absent
            /\ owner' = NoPages
            /\ runs' = [runs EXCEPT ![r].pc = "returned", ![r].result = "Ok",
                                    ![r].committed = {owner[f] : f \in cur.files}]
    /\ UNCHANGED <<overlapped, oneRunVars>>

\* ------------------------------------------------------------ initial states
LeftoverFiles == {PageName(BatchBase), PageName(BatchBase + 1)}

InitCur == {Absent, RegularFile} \cup {Dir(fs) : fs \in SUBSET LeftoverFiles}

InitTestdata ==
    {[kind |-> "absent", entries |-> {}],
     [kind |-> "file", entries |-> {}],
     [kind |-> "dir", entries |-> {}],
     [kind |-> "dir", entries |-> FixtureEntries]}

\* The variables of the entry points that are not run.
InitNoUnit ==
    /\ scanners = <<>>
    /\ selected = None
    /\ path = Absent
    /\ parent_exists = TRUE
    /\ src = [kind |-> "absent", entries |-> {}]
    /\ rets = <<>>

NoCall == [start |-> 0, count |-> None, source |-> "none"]

InitNoScan ==
    /\ sources = [adf_single |-> None, adf_duplex |-> None, flatbed |-> None]
    /\ fake_scan = FALSE
    /\ call = NoCall
    /\ mode = NoMode
    /\ resolution = "Normal"
    /\ cur = Absent
    /\ testdata = [kind |-> "absent", entries |-> {}]

InitScan ==
    /\ entry = "scan_document" /\ pc = "scan_document"
    /\ sources \in SourceMaps
    /\ fake_scan \in BOOLEAN
    /\ call = NoCall
    /\ cur \in InitCur
    /\ testdata \in InitTestdata
    /\ mode = NoMode
    /\ resolution = "Normal"
    /\ doc = Absent
    /\ InitNoUnit

\* A document directory: up to MaxPages numbered TIFFs, possibly with files a
\* previous run derived, and files that are no scan at all.
NumberedTifs == {PageName(BatchBase + k) : k \in 0 .. MaxPages - 1}
OtherFiles == {replace_tif(PageName(BatchBase)), CombinedTif, NotesTxt, NonUnicodeName}

\* What an earlier run of process_document on the pages `a` left behind: the
\* processed pages and the combined TIFF, then the combined PDF, then the
\* final PDF.
DerivedFiles(a) ==
    LET processed == {replace_tif(f) : f \in a}
    IN  {processed \cup {CombinedTif},
         processed \cup {CombinedTif, CombinedPdf},
         processed \cup {CombinedTif, CombinedPdf, FinalPdf}}

\* Any mix of pages and other files, and the directories of one or two pages
\* that were processed before.
InitDoc ==
    {Absent} \cup {Dir(a \cup b) : a \in SUBSET NumberedTifs, b \in SUBSET OtherFiles}
    \cup UNION {{Dir(a \cup d) : d \in DerivedFiles(a)} :
                   a \in {x \in SUBSET NumberedTifs : Cardinality(x) \in {1, 2}}}

InitProcess ==
    /\ entry = "process_document" /\ pc = "process_document"
    /\ doc \in InitDoc
    /\ InitNoScan
    /\ InitNoUnit

\* run_scanimage called on its own: any mode, whether or not options() offers
\* it for the scanner, on a staged (empty) batch directory.
ScanModes ==
    {AdfSingleSided, AdfDuplex, AdfManualDuplex} \cup {Flatbed(n) : n \in 0 .. MaxPageCount}

InitRunScanimage ==
    /\ entry = "run_scanimage" /\ pc = "run_scanimage"
    /\ sources \in SourceMaps
    /\ fake_scan \in BOOLEAN
    /\ call = NoCall
    /\ mode \in ScanModes
    /\ resolution \in {"Normal", "High"}
    /\ cur = Dir({})
    /\ testdata \in InitTestdata
    /\ doc = Absent
    /\ InitNoUnit

\* _scanimage called directly: any start up to MaxStart, no count or a count
\* of up to MaxSheets pages, either resolution.
Calls ==
    [start : 0 .. MaxStart,
     count : {None} \cup {Some(n) : n \in 1 .. MaxSheets},
     source : {"ADF", "Flatbed"}]

InitScanimage ==
    /\ entry = "_scanimage" /\ pc = "_scanimage"
    /\ sources = [adf_single |-> Some("ADF"), adf_duplex |-> None, flatbed |-> Some("Flatbed")]
    /\ fake_scan \in BOOLEAN
    /\ call \in Calls
    /\ mode = NoMode
    /\ resolution \in {"Normal", "High"}
    /\ cur = Dir({})
    /\ testdata \in InitTestdata
    /\ doc = Absent
    /\ InitNoUnit

\* The configured scanners, each stood for by its id.
ScannerLists == UNION {[1 .. n -> 1 .. MaxScanners] : n \in 0 .. MaxScanners}

\* main: the configuration lists n scanners of different ids, the selected
\* scanner has any sources; "current" may be left over from an earlier run.
ConfiguredLists == {[k \in 1 .. n |-> k] : n \in 0 .. MaxScanners}

InitMain ==
    /\ entry = "main" /\ pc = "main"
    /\ scanners \in ConfiguredLists
    /\ selected = None
    /\ path = Absent
    /\ parent_exists = TRUE
    /\ src = [kind |-> "absent", entries |-> {}]
    /\ rets = <<>>
    /\ sources \in SourceMaps
    /\ fake_scan \in BOOLEAN
    /\ call = NoCall
    /\ cur \in InitCur
    /\ testdata \in InitTestdata
    /\ mode = NoMode
    /\ resolution = "Normal"
    /\ doc = Absent


InitSelectScanner ==
    /\ entry = "select_scanner" /\ pc = "select_scanner"
    /\ scanners \in ScannerLists
    /\ selected = None
    /\ path = Absent
    /\ parent_exists = TRUE
    /\ src = [kind |-> "absent", entries |-> {}]
    /\ rets = <<>>
    /\ doc = Absent
    /\ InitNoScan

\* What may be at the path before the first call. Without the parent
\* directory nothing is.
PathContents == {<<"test_file", ".txt">>, <<"sub">>}
InitPath == {Absent, RegularFile} \cup {Dir(fs) : fs \in SUBSET PathContents}

InitEnsureEmpty ==
    /\ entry = "ensure_empty_dir_exists" /\ pc = "ensure_empty_dir_exists"
    /\ parent_exists \in BOOLEAN
    /\ path \in InitPath
    /\ ~parent_exists => path = Absent
    /\ scanners = <<>>
    /\ selected = None
    /\ src = [kind |-> "absent", entries |-> {}]
    /\ rets = <<>>
    /\ doc = Absent
    /\ InitNoScan

\* Sources of a copy: missing, a file, or a directory holding any of two
\* files, a file the destination may already hold, and a subdirectory with a
\* file in it.
SrcEntries ==
    FixtureEntries \cup {[name |-> <<"test_file", ".txt">>, is_file |-> TRUE, children |-> {}]}
InitSrc ==
    {[kind |-> "absent", entries |-> {}], [kind |-> "file", entries |-> {}]}
    \cup {[kind |-> "dir", entries |-> es] : es \in SUBSET SrcEntries}

InitCopy ==
    /\ entry = "copy_dir_file_contents" /\ pc = "copy_dir_file_contents"
    /\ src \in InitSrc
    /\ path \in InitPath
    /\ parent_exists = TRUE
    /\ scanners = <<>>
    /\ selected = None
    /\ rets = <<>>
    /\ doc = Absent
    /\ InitNoScan

\* The variables of the two interleaved runs, when one run alone is modelled.
InitNoRuns ==
    /\ runs = [r \in Runs |-> IdleRun]
    /\ owner = NoPages
    /\ overlapped = FALSE

Init ==
    /\ result = "none"
    /\ log = <<>>
    /\ i = 0
    /\ stamped = <<>>
    /\ tifs_step0 = <<>>
    /\ tifs_step1 = <<>>
    /\ page_idx = 0
    /\ progress = [pos |-> 0, len |-> 0]
    /\ InitNoRuns
    /\ (InitScan \/ InitProcess \/ InitRunScanimage \/ InitSelectScanner
          \/ InitEnsureEmpty
          \/ InitCopy
          \/ InitScanimage
          \/ InitMain)

Next ==
    \/ Main
    \/ Stage
    \/ SelectMode
    \/ PageCount
    \/ Options
    \/ RunScanimage
    \/ Confirm
    \/ Scanimage
    \/ FakeScanimage
    \/ Rename
    \/ SelectScanner
    \/ EnsureEmpty
    \/ CopyDirFileContents
    \/ Discover
    \/ Contrast
    \/ Combine
    \/ Convert
    \/ Ocr

Spec == Init /\ [][Next]_vars

\* Two runs: "current" may hold pages left by a run that ended earlier.
InitRuns ==
    /\ entry = "two_runs" /\ pc = "two_runs"
    /\ result = "none"
    /\ log = <<>>
    /\ i = 0
    /\ stamped = <<>>
    /\ tifs_step0 = <<>>
    /\ tifs_step1 = <<>>
    /\ page_idx = 0
    /\ progress = [pos |-> 0, len |-> 0]
    /\ doc = Absent
    /\ InitNoUnit
    /\ sources = [adf_single |-> Some("ADF"), adf_duplex |-> None, flatbed |-> Some("Flatbed")]
    /\ fake_scan = FALSE
    /\ call = NoCall
    /\ mode = NoMode
    /\ resolution = "Normal"
    /\ testdata = [kind |-> "absent", entries |-> {}]
    /\ cur \in {Absent, Dir({}), Dir(LeftoverFiles)}
    /\ owner = [f \in cur.files |-> "earlier"]
    /\ runs = [r \in Runs |-> IdleRun]
    /\ overlapped = FALSE

NextRuns ==
    \E r \in Runs :
        \/ StartRun(r)
        \/ StageRun(r)
        \/ PromptsRun(r)
        \/ ScanRun(r)
        \/ RenameRun(r)

SpecRuns == InitRuns /\ [][NextRuns]_vars


\* ================================================================== claims
\* Views of the log.
IsScanCall(e) == e.op \in {"scanimage", "fake_scanimage"}
IsProcTool(e) == e.op \in {"magick", "tiffcp", "magick_pdf", "docker"}
IsTool(e) == IsScanCall(e) \/ IsProcTool(e)
IsCancelled(e) ==
    CASE e.op = "Select" -> e.out = 0
      [] e.op \in {"CustomType", "MultiSelect"} -> e.out = None
      [] e.op = "Confirm" -> e.out = "cancel"
      [] OTHER -> FALSE
IsDeclined(e) == e.op = "Confirm" /\ e.out = "no"
ScanCallIdx == {k \in 1 .. Len(log) : IsScanCall(log[k])}
ConfirmIdx == {k \in 1 .. Len(log) : log[k].op = "Confirm"}
RenameIdx == {k \in 1 .. Len(log) : log[k].op = "rename"}
\* The part of the log run_scanimage produced: confirmations and scan calls.
ExecLog == SelectSeq(log, LAMBDA e : IsScanCall(e) \/ e.op = "Confirm")
Committed == stamped # <<>>
Staged == \E k \in 1 .. Len(log) : log[k].op = "Select"
OptionsAnswered == \E k \in 1 .. Len(log) : log[k].op = "MultiSelect" /\ log[k].out # None
InScan == entry = "scan_document"
InProcess == entry = "process_document"
Discovered == {tifs_step0[k] : k \in 1 .. Len(tifs_step0)}

\* C1: the staging directory is renamed only after every scan invocation the
\* mode requires has returned success (one batch for a feeder mode, page_count
\* confirmed single-page invocations for Flatbed); a run with a failed
\* invocation, a declined confirmation or a cancelled prompt never commits.
C1_CommitOnlyAfterAllScans ==
    (InScan /\ (Committed \/ RenameIdx # {} \/ pc = "rename")) =>
        /\ \A k \in 1 .. Len(log) :
             /\ IsScanCall(log[k]) => log[k].out = "ok"
             /\ ~IsDeclined(log[k])
             /\ ~IsCancelled(log[k])
        /\ Cardinality(ScanCallIdx) =
             (IF IsFlatbed(mode) THEN mode.page_count ELSE 1)
        /\ IsFlatbed(mode) =>
             /\ Cardinality(ConfirmIdx) = mode.page_count
             /\ \A k \in ScanCallIdx : k > 1 /\ log[k - 1].op = "Confirm"
        /\ \A r \in RenameIdx : r = Len(log) /\ \A k \in ScanCallIdx : k < r
        /\ Len(stamped) <= 1

C1_Witness ==
    /\ InScan /\ Committed /\ result = "Ok"
    /\ IsFlatbed(mode) /\ mode.page_count = 2 /\ ~fake_scan

\* C2: a scan that fails after staging leaves "current" in place as a
\* directory, not renamed, with no timestamp-named directory created and with
\* every page written before the failure still inside it.
C2_FailedScanLeavesStaging ==
    (InScan /\ Staged /\ pc = "returned" /\ result # "Ok") =>
        /\ cur.kind = "dir"
        /\ stamped = <<>>
        /\ RenameIdx = {}
        /\ \A k \in 1 .. Len(log) : log[k].wrote \subseteq cur.files

C2_Witness ==
    /\ InScan /\ pc = "returned" /\ result = "ToolFailed"
    /\ IsFlatbed(mode) /\ i = 1
    /\ PageName(BatchBase) \in cur.files

\* The stage a pipeline command belongs to.
StageRank(e) ==
    CASE e.op = "magick" -> 1
      [] e.op = "tiffcp" -> 2
      [] e.op = "magick_pdf" -> 3
      [] OTHER -> 4

\* C3: process runs discovery, then contrast correction of every discovered
\* page, then combine, convert and OCR, in that order; a command is invoked
\* only if every earlier one succeeded, and after the first failing one no
\* command is invoked and process returns an error.
C3_StagesInOrderAndGated ==
    InProcess =>
        /\ log # <<>> => pc # "process_document" /\ tifs_step0 # <<>>
        /\ \A k \in 1 .. Len(log) :
             /\ IsProcTool(log[k])
             /\ k > 1 => log[k - 1].out = "ok"
             /\ IF k <= Len(tifs_step0)
                THEN log[k].op = "magick" /\ log[k].arg.in = tifs_step0[k]
                ELSE StageRank(log[k]) = k - Len(tifs_step0) + 1
        /\ Len(log) <= Len(tifs_step0) + 3
        /\ (log # <<>> /\ log[Len(log)].out # "ok") =>
             pc = "returned" /\ result \in {"ToolFailed", "IoError"}
        /\ result = "Ok" => Len(log) = Len(tifs_step0) + 3

C3_Witness ==
    /\ InProcess /\ pc = "returned" /\ result = "ToolFailed"
    /\ Len(tifs_step0) = 2 /\ Len(log) = 4
    /\ log[4].op = "magick_pdf"

\* C4: if the contrast tool fails on the k-th page processed, process returns
\* ToolFailed, the _processed.tif files of the k-1 pages before it are on
\* disk, no later page is processed, and no _combined.tif, _combined.pdf or
\* _final.pdf is created.
C4_ContrastFailureAborts ==
    \A k \in 1 .. Len(log) :
        (InProcess /\ log[k].op = "magick" /\ log[k].out \in {"fail", "fail_partial"}) =>
            /\ k = Len(log)
            /\ pc = "returned" /\ result = "ToolFailed"
            /\ log[k].arg.in = tifs_step0[k]
            /\ \A j \in 1 .. k - 1 :
                 /\ log[j].op = "magick" /\ log[j].arg.in = tifs_step0[j]
                 /\ replace_tif(tifs_step0[j]) \in doc.files
            /\ \A j \in k + 1 .. Len(tifs_step0) :
                 ~\E m \in 1 .. Len(log) :
                     log[m].op = "magick" /\ log[m].arg.in = tifs_step0[j]
            /\ \A m \in 1 .. Len(log) :
                 /\ log[m].op \notin {"tiffcp", "magick_pdf", "docker"}
                 /\ log[m].wrote \cap {CombinedTif, CombinedPdf, FinalPdf} = {}

C4_Witness ==
    /\ InProcess /\ pc = "returned" /\ result = "ToolFailed"
    /\ Len(tifs_step0) = MaxPages /\ Len(log) = 2
    /\ log[2].op = "magick" /\ log[2].out = "fail"
    /\ replace_tif(tifs_step0[1]) \in doc.files

\* C5: when discovery finds no qualifying TIFF file, the document directory
\* is deleted, process returns NoScannedPages and no external tool is invoked.
\* (Discovery finds something or nothing only when it has read every name of
\* the listing; a listing it cannot read through is C22's case.)
C5_NoPagesStep ==
    (InProcess /\ pc = "process_document" /\ doc.kind = "dir"
       /\ (\A f \in doc.files : into_string_ok(f))
       /\ ~\E f \in doc.files : is_unprocessed_tif(f)) =>
        /\ doc'.kind = "absent"
        /\ pc' = "returned" /\ result' = "NoScannedPages"
        /\ log' = <<>>

\* C5, as a property of every step and every state: the step that finds no
\* page deletes the directory and returns NoScannedPages with an empty log.
C5_NoPagesDeletesDirectory ==
    /\ [][C5_NoPagesStep]_vars
    /\ [](result = "NoScannedPages" => doc.kind = "absent" /\ log = <<>> /\ pc = "returned")

C5_Witness ==
    /\ InProcess /\ pc = "returned" /\ result = "NoScannedPages"
    /\ doc.kind = "absent" /\ log = <<>>

\* C6: in a run of process that discovered at least one page, whatever stage
\* fails, the document directory still exists, every original numbered TIFF
\* is still there and was written by no stage, and the output of every stage
\* that completed is on disk; the directory is deleted only when no page was
\* found.
C6_State ==
    (InProcess /\ tifs_step0 # <<>>) =>
        /\ doc.kind = "dir"
        /\ Discovered \subseteq doc.files
        /\ \A k \in 1 .. Len(log) :
             /\ log[k].wrote \cap Discovered = {}
             /\ log[k].out = "ok" => log[k].arg.out \in doc.files

C6_Step ==
    /\ (InProcess /\ doc.kind = "dir" /\ doc'.kind # "dir") =>
         (result' = "NoScannedPages" /\ tifs_step0' = <<>>)
    /\ (InProcess /\ doc.kind = "dir") => doc.files \subseteq doc'.files \/ doc'.kind # "dir"

\* C6, as a property of every state and every step: originals and completed
\* outputs stay, and only the no-pages return removes the directory.
C6_NoRollbackOriginalsKept == []C6_State /\ [][C6_Step]_vars

C6_Witness ==
    /\ InProcess /\ pc = "returned" /\ result = "ToolFailed"
    /\ Len(tifs_step0) = 2 /\ Len(log) = 3 /\ log[3].op = "tiffcp"
    /\ replace_tif(tifs_step0[2]) \in doc.files

\* C7: a Flatbed run of page_count n in which every prompt is confirmed and
\* every invocation succeeds makes exactly n invocations, in order, the i-th
\* (0-based) with batch-start offset i and batch-count 1, each right after
\* the one confirmation prompt for that page.
C7_FlatbedOnePerPage ==
    (InScan /\ IsFlatbed(mode) /\ pc = "returned" /\ result = "Ok") =>
        LET n == mode.page_count
        IN  /\ n >= 1
            /\ Len(ExecLog) = 2 * n
            /\ \A k \in 0 .. n - 1 :
                 /\ ExecLog[2 * k + 1].op = "Confirm"
                 /\ ExecLog[2 * k + 1].arg.i = k
                 /\ ExecLog[2 * k + 1].out = "yes"
                 /\ IsScanCall(ExecLog[2 * k + 2])
                 /\ ExecLog[2 * k + 2].arg.batch_start = BatchBase + k
                 /\ ExecLog[2 * k + 2].arg.batch_count = Some(1)
                 /\ ExecLog[2 * k + 2].out = "ok"

C7_Witness ==
    /\ InScan /\ pc = "returned" /\ result = "Ok" /\ ~fake_scan
    /\ IsFlatbed(mode) /\ mode.page_count = 2
    /\ Len(ExecLog) = 4
    /\ ExecLog[2].arg.batch_start = BatchBase
    /\ ExecLog[4].arg.batch_start = BatchBase + 1

\* C8: when the operator declines the confirmation for page i, the scan
\* aborts with UserAborted: exactly i invocations have occurred (pages
\* 0..i-1), nothing is prompted or invoked afterwards, and the staging
\* directory is not committed.
C8_DeclineAborts ==
    \A k \in 1 .. Len(log) :
        (InScan /\ IsDeclined(log[k])) =>
            /\ k = Len(log)
            /\ pc = "returned" /\ result = "UserAborted"
            /\ log[k].arg.i < log[k].arg.page_count
            /\ Cardinality(ScanCallIdx) = log[k].arg.i
            /\ {log[m].arg.batch_start : m \in ScanCallIdx}
                 = {BatchBase + p : p \in 0 .. log[k].arg.i - 1}
            /\ Cardinality(ConfirmIdx) = log[k].arg.i + 1
            /\ stamped = <<>> /\ cur.kind = "dir" /\ RenameIdx = {}

C8_Witness ==
    /\ InScan /\ pc = "returned" /\ result = "UserAborted"
    /\ Len(log) > 0 /\ IsDeclined(log[Len(log)]) /\ log[Len(log)].arg.i = 1
    /\ Cardinality(ScanCallIdx) = 1

\* C9: in each feeder mode the executor makes exactly one invocation, with
\* batch-start offset 0 and no batch-count argument, and prompts for no
\* per-page confirmation.
C9_FeederSingleBatch ==
    (InScan /\ mode.kind \in FeederKinds) =>
        /\ ConfirmIdx = {}
        /\ Cardinality(ScanCallIdx) <= 1
        /\ \A k \in ScanCallIdx :
             /\ log[k].arg.batch_start = BatchBase + 0
             /\ log[k].arg.batch_count = None
        /\ (OptionsAnswered /\ pc \in {"rename", "returned"}) =>
             Cardinality(ScanCallIdx) = 1

C9_Witness ==
    /\ InScan /\ pc = "returned" /\ result = "Ok" /\ ~fake_scan
    /\ mode.kind = "AdfManualDuplex"
    /\ Cardinality(ScanCallIdx) = 1

\* C10: no external tool invocation is retried: every invocation of a run is
\* attempted at most once, and the first one that fails makes the run return
\* an error with no invocation after it.
C10_NoRetry ==
    /\ \A j, k \in 1 .. Len(log) :
         (j < k /\ IsTool(log[j]) /\ log[j].op = log[k].op) => log[j].arg # log[k].arg
    /\ \A k \in 1 .. Len(log) :
         (IsTool(log[k]) /\ log[k].out # "ok") =>
             /\ k = Len(log)
             /\ pc = "returned"
             /\ result \notin {"Ok", "none"}

C10_Witness ==
    /\ pc = "returned" /\ result = "ToolFailed"
    /\ Len(log) >= 2 /\ IsTool(log[Len(log)]) /\ log[Len(log)].out = "fail"
    /\ IsTool(log[Len(log) - 1]) /\ log[Len(log) - 1].out = "ok"


\* The order in which the modes are offered.
ModeOrder == <<"AdfSingleSided", "AdfDuplex", "AdfManualDuplex", "Flatbed">>
ModeRank(kind) == CHOOSE r \in 1 .. Len(ModeOrder) : ModeOrder[r] = kind
OfferedKinds(o) == {o[k].kind : k \in 1 .. Len(o)}

\* C11: the list of modes offered for a source map holds a mode iff the
\* source it requires is set (single-sided and manual duplex: adf_single,
\* duplex: adf_duplex, flatbed: flatbed), in the order single-sided, duplex,
\* manual duplex, flatbed; an empty map gives an empty list, and a map with
\* only adf_single gives exactly single-sided and manual duplex.
C11_OptionsIffSourcePresent ==
    \A k \in 1 .. Len(log) :
        (InScan /\ log[k].op = "Select") =>
            LET o == log[k].arg
            IN  /\ ("AdfSingleSided" \in OfferedKinds(o)) <=> (sources.adf_single # None)
                /\ ("AdfManualDuplex" \in OfferedKinds(o)) <=> (sources.adf_single # None)
                /\ ("AdfDuplex" \in OfferedKinds(o)) <=> (sources.adf_duplex # None)
                /\ ("Flatbed" \in OfferedKinds(o)) <=> (sources.flatbed # None)
                /\ OfferedKinds(o) \subseteq {ModeOrder[r] : r \in 1 .. Len(ModeOrder)}
                /\ \A a, b \in 1 .. Len(o) :
                     a < b => ModeRank(o[a].kind) < ModeRank(o[b].kind)
                /\ (sources.adf_single = None /\ sources.adf_duplex = None
                      /\ sources.flatbed = None) => o = <<>>
                /\ (sources.adf_single # None /\ sources.adf_duplex = None
                      /\ sources.flatbed = None) => o = <<AdfSingleSided, AdfManualDuplex>>

C11_Witness ==
    /\ InScan /\ Len(log) > 0 /\ log[1].op = "Select"
    /\ log[1].arg = <<AdfSingleSided, AdfManualDuplex>>
    /\ sources.adf_single # None /\ sources.adf_duplex = None /\ sources.flatbed = None

\* The source a mode requires, as the source map's field.
RequiredSource(m, srcs) ==
    IF m.kind \in {"AdfSingleSided", "AdfManualDuplex"} THEN srcs.adf_single
    ELSE IF m.kind = "AdfDuplex" THEN srcs.adf_duplex
    ELSE srcs.flatbed

\* run_scanimage has resolved (or failed to resolve) the source.
SourceResolutionDone ==
    /\ InExecutor
    /\ pc \notin {"scan_document", "select_mode", "page_count", "options", "run_scanimage"}
    /\ entry = "scan_document" => OptionsAnswered

\* C12: source resolution fails with SourceUnavailable exactly when the
\* source map lacks the source the mode requires, and then no scan tool is
\* invoked and no page confirmation is prompted; for every mode options()
\* returns for a source map, resolution succeeds.
C12_SourceUnavailableIffMissing ==
    /\ SourceResolutionDone =>
         ((result = "SourceUnavailable") <=> (RequiredSource(mode, sources) = None))
    /\ result = "SourceUnavailable" => ScanCallIdx = {} /\ ConfirmIdx = {}
    /\ InExecutor =>
         \A k \in 1 .. Len(options(sources)) :
             is_some(get_source(options(sources)[k], sources))
    /\ InScan => result # "SourceUnavailable"

C12_Witness ==
    /\ entry = "run_scanimage" /\ pc = "returned" /\ result = "SourceUnavailable"
    /\ mode.kind = "AdfDuplex" /\ sources.adf_single # None /\ sources.adf_duplex = None
    /\ log = <<>>


InSelect == entry = "select_scanner"

\* C13: given exactly one scanner, the device selector returns it without
\* prompting; given more than one, it presents the single-choice prompt
\* exactly once and returns the operator's answer.
C13_SelectScanner ==
    (InSelect /\ pc = "returned") =>
        /\ Len(scanners) = 1 =>
             log = <<>> /\ result = "Ok" /\ selected = Some(scanners[1])
        /\ Len(scanners) > 1 =>
             /\ Len(log) = 1
             /\ log[1].op = "SelectScanner" /\ log[1].arg = scanners
             /\ IF log[1].out > 0
                THEN result = "Ok" /\ selected = Some(scanners[log[1].out])
                ELSE result = "InquireError" /\ selected = None

C13_Witness ==
    /\ InSelect /\ pc = "returned" /\ result = "Ok"
    /\ scanners = <<2>> /\ selected = Some(2) /\ log = <<>>

\* C14: given an empty scanner list, the device selector fails with
\* NoScannersConfigured before prompting: the single-choice prompt is never
\* presented with an empty list.
C14_EmptyListRejectedBeforePrompt ==
    /\ (InSelect /\ pc = "returned" /\ scanners = <<>>) =>
         result = "NoScannersConfigured" /\ log = <<>>
    /\ \A k \in 1 .. Len(log) : log[k].op = "SelectScanner" => log[k].arg # <<>>


InEnsure == entry = "ensure_empty_dir_exists"
\* What is at the path, and whether its parent exists, after the k-th call.
PathAfter(k) == IF k < Len(rets) THEN rets[k + 1].before ELSE path
ParentAfter(k) == IF k < Len(rets) THEN rets[k + 1].parent_before ELSE parent_exists

\* C15: with the parent present and the path absent, an empty directory or a
\* directory with contents, ensure_empty succeeds and leaves the path an
\* existing, empty directory; a second call right after succeeds with the
\* same result.
C15_EnsureEmptyIdempotent ==
    \A k \in 1 .. Len(rets) :
        (InEnsure /\ rets[k].parent_before /\ rets[k].before.kind \in {"absent", "dir"}) =>
            /\ rets[k].ret = "Ok"
            /\ PathAfter(k).kind = "dir" /\ PathAfter(k).files = {}
            /\ ParentAfter(k)
            /\ k > 1 => rets[k - 1].ret = "Ok" /\ PathAfter(k) = PathAfter(k - 1)

C15_Witness ==
    /\ InEnsure /\ Len(rets) = 2
    /\ rets[1].before = Dir(PathContents) /\ rets[1].ret = "Ok"
    /\ rets[2].before = Dir({}) /\ rets[2].ret = "Ok"
    /\ path = Dir({})

\* C16: ensure_empty returns an error and changes nothing when the path is a
\* regular file (it stays a file) and when the parent directory is missing
\* (neither the parent nor the path is created).
C16_EnsureEmptyErrors ==
    \A k \in 1 .. Len(rets) :
        /\ (InEnsure /\ rets[k].before.kind = "file") =>
             /\ rets[k].ret # "Ok"
             /\ PathAfter(k) = rets[k].before
             /\ ParentAfter(k) = rets[k].parent_before
        /\ (InEnsure /\ ~rets[k].parent_before) =>
             /\ rets[k].ret # "Ok"
             /\ PathAfter(k).kind = "absent"
             /\ ~ParentAfter(k)

C16_Witness ==
    /\ InEnsure /\ Len(rets) = 2
    /\ ~rets[1].parent_before /\ rets[1].ret = "IoError"
    /\ ~parent_exists /\ path = Absent


InCopy == entry = "copy_dir_file_contents"
TopLevelFiles(d) == {e.name : e \in {x \in d.entries : x.is_file}}

\* C17: copying the contents of src into an existing directory dst adds to dst
\* exactly the top-level regular files of src, under the same names, and
\* nothing of or from its subdirectories; a dst that is missing or no
\* directory gives DestinationInvalid and nothing is copied.
C17_CopyTopLevelFilesOnly ==
    (InCopy /\ Len(rets) = 1) =>
        LET before == rets[1].before IN
        /\ (before.kind = "dir" /\ src.kind = "dir") =>
              /\ rets[1].ret = "Ok"
              /\ path.kind = "dir"
              /\ path.files = before.files \cup TopLevelFiles(src)
        /\ before.kind # "dir" =>
              /\ rets[1].ret = "DestinationInvalid"
              /\ path = before

C17_Witness ==
    /\ InCopy /\ Len(rets) = 1 /\ rets[1].ret = "Ok"
    /\ src.entries = SrcEntries
    /\ rets[1].before = Dir({<<"sub">>})
    /\ path.files = {<<"sub">>, <<"test_file", ".txt">>, PageName(BatchBase), PageName(BatchBase + 1)}


ProgressStarted == InProcess /\ tifs_step0 # <<>>

\* C18: the progress total is the number of discovered pages plus 4; the
\* counter never exceeds the total, and equals it when processing returns
\* success.
C18_ProgressTotal ==
    ProgressStarted =>
        /\ progress.len = Len(tifs_step0) + 4
        /\ progress.pos <= progress.len
        /\ result = "Ok" => progress.pos = progress.len

C18_Witness ==
    /\ InProcess /\ result = "Ok"
    /\ Len(tifs_step0) = MaxPages
    /\ progress.pos = MaxPages + 4 /\ progress.len = MaxPages + 4

LastEvent(l) == l[Len(l)]
LoopEnds == page_idx' = Len(tifs_step0)

\* C19 as stated: a step ticks once, after its tool returned successfully (the
\* step that ends the per-page loop also makes the loop's completion tick); a
\* step whose tool fails leaves the counter alone.
C19_TickOnlyAfterSuccess ==
    [][(InProcess /\ log' # log) =>
          IF LastEvent(log').out = "ok"
          THEN progress'.pos = progress.pos + 1
                                + (IF LastEvent(log').op = "magick" /\ LoopEnds THEN 1 ELSE 0)
          ELSE progress' = progress]_vars

\* C19, amended: combine, convert and OCR tick once after their tool returned
\* successfully and not at all when it fails; a page's iteration makes its
\* tick before the contrast tool runs, so it ticks once whether the tool
\* succeeds or fails, and the iteration that ends the loop is followed by one
\* more tick.
C19_PageTicksBeforeTool ==
    [][(InProcess /\ log' # log) =>
          LET e == LastEvent(log') IN
          /\ progress'.len = progress.len
          /\ IF e.op = "magick"
             THEN progress'.pos = progress.pos + 1
                                   + (IF e.out = "ok" /\ LoopEnds THEN 1 ELSE 0)
             ELSE progress'.pos = progress.pos + (IF e.out = "ok" THEN 1 ELSE 0)]_vars

C19_Witness ==
    /\ InProcess /\ result = "ToolFailed"
    /\ Len(log) = 2
    /\ log[1].op = "magick" /\ log[1].out = "ok"
    /\ log[2].op = "magick" /\ log[2].out = "fail"
    /\ progress.pos = 2


FakeIdx == {k \in 1 .. Len(log) : log[k].op = "fake_scanimage"}
\* The directory the scans of this run are in.
Workspace == IF Committed THEN stamped[1] ELSE cur

\* C20: with the fake flag set, whatever the mode, the real scanning tool is
\* never invoked; every invocation that would have been made copies the files
\* of the fixture directory into the workspace instead, and with the fixture
\* directory absent the scan fails with FixtureMissing and is not committed.
C20_FakeNeverCallsDevice ==
    (InExecutor /\ fake_scan) =>
        /\ \A k \in 1 .. Len(log) : log[k].op # "scanimage"
        /\ \A k \in FakeIdx :
              log[k].out = "ok" =>
                  /\ testdata.kind = "dir"
                  /\ Workspace.kind = "dir"
                  /\ TopLevelFiles(testdata) \subseteq Workspace.files
                  /\ log[k].wrote \subseteq TopLevelFiles(testdata)
        /\ (testdata.kind = "absent" /\ FakeIdx # {}) =>
              /\ result = "FixtureMissing"
              /\ ~Committed
              /\ Cardinality(FakeIdx) = 1

C20_Witness ==
    /\ entry = "scan_document" /\ fake_scan /\ result = "Ok"
    /\ IsFlatbed(mode) /\ mode.page_count = 2
    /\ Cardinality(FakeIdx) = 2
    /\ testdata.entries = FixtureEntries
    /\ Committed /\ stamped[1].files = TopLevelFiles(testdata)

InDirectCall == entry = "_scanimage"
\* How many scan calls were made before the k-th event of the log.
CallsBefore(k) == Cardinality({j \in ScanCallIdx : j < k})

\* C21: the command line of every scan call follows from the call's inputs:
\* batch-start is 1000 + start (1000.tif first for start 0, 1004.tif for
\* start 4), batch-count is there exactly when a count was given and is that
\* count, the resolution is 300 for Normal and 600 for High; so the pages of
\* one Flatbed scan are written to 1000.tif, 1001.tif, ..., all different.
C21_ScanimageArguments ==
    \A k \in ScanCallIdx :
        LET cmd == log[k].arg IN
        /\ cmd.resolution = (IF resolution = "Normal" THEN 300 ELSE 600)
        /\ InDirectCall =>
              /\ cmd.batch_start = 1000 + call.start
              /\ (call.count = None) <=> (cmd.batch_count = None)
              /\ cmd.batch_count = call.count
              /\ (log[k].op = "scanimage" /\ log[k].out = "ok") =>
                    PageName(1000 + call.start) \in log[k].wrote
        /\ (InExecutor /\ IsFlatbed(mode)) =>
              /\ cmd.batch_start = 1000 + CallsBefore(k)
              /\ cmd.batch_count = Some(1)
              /\ (log[k].op = "scanimage" /\ log[k].out = "ok") =>
                    log[k].wrote = {PageName(1000 + CallsBefore(k))}
              /\ \A j \in ScanCallIdx : j # k => log[j].arg.batch_start # cmd.batch_start

C21_Witness ==
    /\ InDirectCall /\ ~fake_scan /\ result = "Ok"
    /\ call.start = 4 /\ call.count = Some(2) /\ resolution = "High"
    /\ log[1].arg.batch_start = 1004
    /\ log[1].arg.batch_count = Some(2)
    /\ log[1].arg.resolution = 600
    /\ log[1].wrote = {<<"1004", ".tif">>, <<"1005", ".tif">>}

\* C22: the scan run and the processing run report every failure as a
\* returned error and never end by a panic, also when the directory to
\* process is missing or unreadable or holds an entry whose name cannot be
\* read.
C22_FailuresAreReturned ==
    /\ (InProcess \/ InExecutor) => pc # "panicked"
    /\ (InProcess /\ pc # "process_document" /\ doc.kind # "dir" /\ log = <<>>) =>
          pc = "returned" /\ result # "none" /\ result # "Ok"

InMain == entry = "main"
\* process_document has been entered in this run.
ProcessInvoked ==
    \/ pc \in {"process_document", "contrast", "combine", "convert", "ocr"}
    \/ tifs_step0 # <<>>
    \/ result = "NoScannedPages"
    \/ \E k \in 1 .. Len(log) : IsProcTool(log[k])

\* C23: a complete run commits the staging directory and then runs the
\* post-processing pipeline on exactly the committed directory; the pipeline
\* never starts before the commit and never works on "current".
C23_ProcessRunsOnCommittedDirectory ==
    /\ (InMain /\ pc = "returned" /\ result = "Ok") =>
          /\ Committed
          /\ ProcessInvoked
          /\ doc.kind = "dir" /\ stamped[1].files \subseteq doc.files
    /\ (InMain /\ ProcessInvoked) => (Committed /\ cur.kind = "absent")

\* The pages in "current" that an in-flight run other than r wrote.
PagesOfOtherInFlightRun(r) ==
    {f \in cur.files : owner[f] \in Runs \ {r} /\ InFlight(owner[f])}

\* C24 as stated: also when two runs on one cache root interleave, no run
\* clears, writes pages into or commits a "current" directory that holds
\* pages of the other in-flight run.
C24_NoSharedStagingUse ==
    [][\A r \in Runs :
          (runs'[r] # runs[r] /\ cur' # cur) => PagesOfOtherInFlightRun(r) = {}]_vars

\* C24, amended: runs that do not overlap (a run is started only once the run
\* before it has ended, with success or with an error) are isolated: staging
\* clears whatever an earlier run left in "current", so the directory a run
\* commits holds only pages of that run, and a committed directory is never
\* changed afterwards. Interleaved runs are not isolated.
C24_SequentialRunsIsolated ==
    /\ [](\A r \in Runs :
            (~overlapped /\ runs[r].result = "Ok") => runs[r].committed \subseteq {r})
    /\ [][\A k \in 1 .. Len(stamped) : Len(stamped') >= k /\ stamped'[k] = stamped[k]]_vars

C24_Witness ==
    /\ ~overlapped
    /\ runs["A"].result = "ToolFailed" /\ runs["A"].mode = AdfSingleSided
    /\ runs["B"].result = "Ok" /\ runs["B"].committed = {"B"}
    /\ Len(stamped) = 1 /\ stamped[1].files = {PageName(BatchBase)}

\* The step of scan_document that stages the workspace.
StagingStep == InScanDocument /\ pc = "scan_document" /\ pc' # "scan_document"
BeforeFirstScan ==
    InScanDocument /\ pc \in {"select_mode", "page_count", "options", "run_scanimage",
                              "confirm", "_scanimage"} /\ ScanCallIdx = {}

\* Nothing of scan_document is in the log: no prompt of it, no scan call.
NoScanPromptYet == \A k \in 1 .. Len(log) : log[k].op = "SelectScanner"

\* C25 as stated: the workspace is staged once the scan mode and resolution
\* have been resolved, before the first scan call, and "current" is empty when
\* the first scan call starts.
C25_StagedAfterModeResolved ==
    /\ [][StagingStep => (mode.kind # "unset" /\ OptionsAnswered)]_vars
    /\ [](BeforeFirstScan => cur = Dir({}))

\* C25, amended: the workspace is staged first, before the prompts for the
\* scan mode, the page count and the options and so before the mode and
\* resolution are resolved; staging still precedes the first scan call, the
\* prompts leave "current" alone, and "current" is empty when the first scan
\* call starts.
C25_StagedBeforePrompts ==
    /\ [][StagingStep =>
            /\ NoScanPromptYet /\ log' = log /\ mode.kind = "unset"
            /\ cur.kind \in {"absent", "dir"} => (cur' = Dir({}) /\ pc' = "select_mode")
            /\ cur.kind = "file" => (cur' = cur /\ pc' = "returned" /\ result' = "NotADirectory")]_vars
    /\ []((InScanDocument /\ ~NoScanPromptYet) =>
            pc \notin {"main", "select_scanner", "scan_document"})
    /\ [](BeforeFirstScan => cur = Dir({}))

C25_Witness ==
    /\ entry = "scan_document" /\ pc = "_scanimage" /\ ScanCallIdx = {}
    /\ cur = Dir({}) /\ mode = AdfSingleSided /\ resolution = "High"
    /\ Len(log) = 2 /\ log[1].op = "Select" /\ log[2].op = "MultiSelect"

\* The step of process_document that lists the directory to its end.
DiscoveryStep ==
    InProcess /\ pc = "process_document" /\ pc' \notin {"process_document", "panicked"}
IsDerivedName(f) ==
    \/ f \in {CombinedTif, CombinedPdf, FinalPdf}
    \/ \E g \in NumberedTifs : f = <<g[1], "_", "processed", ".tif">>

\* C26: discovery selects exactly the entries whose name ends in ".tif" and
\* has no "_" in it, each once; so in a directory an earlier partial or
\* complete run left behind it finds the original numbered TIFFs and none of
\* the derived files.
C26_DiscoveryFindsOriginalsOnly ==
    [][DiscoveryStep =>
         LET found == {tifs_step0'[k] : k \in 1 .. Len(tifs_step0')}
         IN  /\ found = {f \in doc.files :
                           /\ f[Len(f)] = ".tif"
                           /\ \A k \in 1 .. Len(f) : f[k] # "_"}
             /\ Cardinality(found) = Len(tifs_step0')
             /\ found = doc.files \cap NumberedTifs
             /\ \A f \in found : ~IsDerivedName(f)]_vars

C26_Witness ==
    /\ InProcess /\ pc = "contrast" /\ log = <<>>
    /\ doc.files = {PageName(1000), PageName(1001),
                    <<"1000", "_", "processed", ".tif">>, <<"1001", "_", "processed", ".tif">>,
                    CombinedTif, CombinedPdf, FinalPdf}
    /\ Discovered = {PageName(1000), PageName(1001)}

AtExecutor == pc \in {"run_scanimage", "confirm", "_scanimage", "rename", "panicked"}

\* C27: in a run that goes through scan_document, a Flatbed mode reaches
\* run_scanimage only with page_count >= 1: the placeholder 0 that options()
\* gives is replaced by the validated answer to the page count prompt first,
\* so the assertion page_count > 0 never fails.
C27_FlatbedPageCountPositive ==
    InScanDocument =>
        /\ pc # "panicked"
        /\ (AtExecutor /\ IsFlatbed(mode)) =>
              /\ mode.page_count >= 1
              /\ \E k \in 1 .. Len(log) :
                    /\ log[k].op = "CustomType"
                    /\ log[k].out = Some(mode.page_count)
        /\ \A k \in 1 .. Len(log) :
              (log[k].op = "CustomType" /\ log[k].out # None) => log[k].out[1] >= 1

C27_Witness ==
    /\ entry = "scan_document" /\ pc = "confirm" /\ i = 0
    /\ mode = Flatbed(1)
    /\ log[1].op = "Select" /\ log[1].arg[log[1].out] = Flatbed(0)
    /\ log[2].op = "CustomType" /\ log[2].out = Some(1)

\* The page number a page's (or processed page's) name starts with.
PageNumber(name) ==
    CHOOSE n \in BatchBase .. BatchBase + MaxPages : ToString(n) = name[1]

\* C28: the input list of the combine stage holds the _processed file of
\* every discovered page exactly once, by ascending page number (1000, 1001,
\* ...), in whatever order the directory listing returned the entries.
C28_CombineInputAscending ==
    \A k \in 1 .. Len(log) :
        (InProcess /\ log[k].op = "tiffcp") =>
            LET input == log[k].arg.in IN
            /\ Len(input) = Len(tifs_step0)
            /\ {input[j] : j \in 1 .. Len(input)} =
                  {<<f[1], "_", "processed", ".tif">> : f \in Discovered}
            /\ \A a, b \in 1 .. Len(input) :
                  a < b => PageNumber(input[a]) < PageNumber(input[b])

====
